---- MODULE Spec2Model ----
(***************************************************************************)
(* Model of the vue-sherpa tour sequencer (src/composables/useTour.ts).    *)
(*                                                                         *)
(* The state is the four refs of useTour (status, currentStepIndex,        *)
(* targetElement, targetRect), the fixed step list and options, and the    *)
(* work the composable leaves outstanding between synchronous runs:        *)
(* setStep invocations suspended on an awaited before-callback, animation  *)
(* frame callbacks registered by updateTarget, and auto-advance timers.    *)
(* One action is one synchronous run of the program: a control call, the   *)
(* continuation of a suspended setStep, an animation frame, a timer, or a  *)
(* window event.  Steps are indexed from 0 as in the source; -1 is "no     *)
(* step" and "no element".  The reactive state object that useTour returns *)
(* is a copy of the refs that a watcher refreshes after each run; the      *)
(* variables here are the refs themselves.                                 *)
(***************************************************************************)
EXTENDS Integers, Sequences, FiniteSets, TLC

VARIABLES
    steps,             \* opts.steps: the fixed step list (a function on 0..N-1)
    opts,              \* the merged options that the code branches on
    status,            \* ref status
    currentStepIndex,  \* ref currentStepIndex
    targetElement,     \* ref targetElement (NoElement = null)
    targetRect,        \* ref targetRect (NoRect = null)
    pending,           \* setStep invocations suspended at an await
    rafQueue,          \* elements captured by registered animation-frame callbacks
    timers,            \* timers[i]: pending auto-advance timers that captured index i
    dom,               \* the step indices whose target resolves to an element
    layout,            \* the scroll/size state that getBoundingClientRect depends on
    lastOp,            \* history: the synchronous run that produced this state
    effects,           \* history: the effects of that run, in program order
    from,              \* history: what that run started from
    returned,          \* the plain values in the object useTour returned
    props,             \* what an adapter component was mounted with
    path,              \* useOverlay: ref path (a list of path commands; <<>> = '')
    isVisible,         \* useOverlay: ref isVisible
    currentOptions,    \* useOverlay: let currentOptions
    currentTargetRect, \* useOverlay: let currentTargetRect (NoTargetRect = null)
    window             \* window.innerWidth and window.innerHeight

vars == <<steps, opts, status, currentStepIndex, targetElement, targetRect,
          pending, rafQueue, timers, dom, layout, lastOp, effects, from,
          returned, props, path, isVisible, currentOptions, currentTargetRect, window>>

\* The state of useOverlay and of the viewport it draws in.
overlayVars == <<path, isVisible, currentOptions, currentTargetRect, window>>

\* What no control call, continuation, frame or timer writes.
fixed == <<steps, opts, dom, layout, returned, props, overlayVars>>

progVars == <<status, currentStepIndex, targetElement, targetRect,
              pending, rafQueue, timers>>

----------------------------------------------------------------------------
(* Bounds of the model *)

MaxSteps == 2      \* longest step list
MaxPending == 1    \* setStep invocations suspended at the same time
MaxRaf == 1        \* animation-frame callbacks registered at the same time
MaxTimers == 1     \* auto-advance timers outstanding per step

NoStep == -1
NoElement == -1
NoRect == [el |-> -1, at |-> -1]

Statuses == {"idle", "active", "paused", "completed"}

\* A step's hooks and autoAdvance; the kinds of step the model draws lists from.
Hooks == {"onBeforeShow", "onAfterShow", "onBeforeHide", "onAfterHide"}
AutoDelay == 1
\* transitions parked at once, and timers outstanding for one step, where calls overlap
MaxOverlap == 2
StepKinds ==
    { [hooks |-> {}, autoAdvance |-> 0],
      [hooks |-> Hooks, autoAdvance |-> 0],
      [hooks |-> {}, autoAdvance |-> AutoDelay] }

\* Step i of a list carries the identifier i + 1 ("step1", "step2", ...).
MkStep(i, kind) == [id |-> i + 1, hooks |-> kind.hooks, autoAdvance |-> kind.autoAdvance]

StepLists ==
    UNION { { [i \in 0..(n - 1) |-> MkStep(i, ks[i])] : ks \in [0..(n - 1) -> StepKinds] }
            : n \in 0..MaxSteps }

DefaultOptions ==
    [keyboardNavigation |-> TRUE, closeOnClickOutside |-> FALSE,
     closeOnEscape |-> TRUE, scrollToTarget |-> TRUE]

\* An adapter's props: showOverlay defaults to true; no default slot is passed.
DefaultProps == [showOverlay |-> TRUE, defaultSlot |-> FALSE]

\* useOverlay: the options before any call (opacity in hundredths), and "no rectangle"
DefaultOverlayOptions ==
    [padding |-> 8, radius |-> 4, opacity |-> 75, color |-> "black",
     animate |-> TRUE, animationDuration |-> 300]

NoTargetRect == [x |-> 0, y |-> 0, width |-> -1, height |-> -1]

----------------------------------------------------------------------------
(* Computed state *)

totalSteps == Cardinality(DOMAIN steps)

StepAt(i) == IF i >= 0 /\ i < totalSteps THEN i ELSE NoStep

currentStep == StepAt(currentStepIndex)

isFirstStep == currentStepIndex = 0

isLastStep == currentStepIndex = totalSteps - 1

\* a / b and q * k, kept exact as a numerator over a denominator
Quotient(a, b) == [num |-> a, den |-> b]

Scaled(q, k) == [num |-> q.num * k, den |-> q.den]

\* progress that counts the steps before the current one
progress_zeroBased ==
    IF totalSteps > 0
    THEN Scaled(Quotient(currentStepIndex, totalSteps), 100)
    ELSE Quotient(0, 1)

progress ==
    IF totalSteps > 0
    THEN Scaled(Quotient(currentStepIndex + 1, totalSteps), 100)
    ELSE Quotient(0, 1)

isActive == status = "active"

----------------------------------------------------------------------------
(* The running state of one synchronous run.                               *)
(* A handler is a function from the state it finds to the state it leaves: *)
(* the refs, the outstanding work, fx (the effects of the run so far) and  *)
(* tr (the effects so far of the setStep invocation being executed).       *)

Fx(cb, step, dir) == [cb |-> cb, step |-> step, dir |-> dir]

Cur ==
    [status |-> status, idx |-> currentStepIndex, el |-> targetElement,
     rect |-> targetRect, pending |-> pending, raf |-> rafQueue,
     timers |-> timers, fx |-> <<>>, tr |-> <<>>]

Log(m, e) == [m EXCEPT !.fx = Append(@, e), !.tr = Append(@, e)]

HasHook(i, hook) == i # NoStep /\ hook \in steps[i].hooks

\* resolveTarget: step.target() or document.querySelector(step.target)
resolveTarget(step) == IF step \in dom THEN step ELSE NoElement

\* el.getBoundingClientRect()
getBoundingClientRect(el) == [el |-> el, at |-> layout]

\* updateTarget that leaves the last measured rectangle when no element is found
updateTarget_keepsRect(m) ==
    LET step == StepAt(m.idx) IN
    IF step = NoStep
    THEN [m EXCEPT !.el = NoElement, !.rect = NoRect]
    ELSE LET el == resolveTarget(step) IN
         IF el # NoElement
         THEN LET m1 == [m EXCEPT !.el = el, !.rect = getBoundingClientRect(el)] IN
              IF opts.scrollToTarget
              THEN [m1 EXCEPT !.raf = Append(@, el)]
              ELSE m1
         ELSE [m EXCEPT !.el = NoElement]

updateTarget(m) ==
    LET step == StepAt(m.idx) IN
    IF step = NoStep
    THEN [m EXCEPT !.el = NoElement, !.rect = NoRect]
    ELSE LET el == resolveTarget(step) IN
         IF el # NoElement
         THEN LET m1 == [m EXCEPT !.el = el, !.rect = getBoundingClientRect(el)] IN
              IF opts.scrollToTarget
              THEN [m1 EXCEPT !.raf = Append(@, el)]
              ELSE m1
         ELSE [m EXCEPT !.el = NoElement, !.rect = NoRect]

\* setStep suspended at an await: the invocation is parked with what it has done.
Suspend(m, r, at) ==
    [m EXCEPT !.pending = Append(@, [r EXCEPT !.pc = at, !.trace = m.tr])]

\* setStep's tail with the two after-callbacks swapped
setStepCommit_showBeforeHide(m, r) ==
    LET m1 == Log([m EXCEPT !.idx = r.index], Fx("commit", r.index, "none"))
        m2 == Log(updateTarget(m1), Fx("updateTarget", r.index, "none"))
        m3 == IF HasHook(r.index, "onAfterShow")
              THEN Log(m2, Fx("onAfterShow", r.index, "none")) ELSE m2
        m4 == IF HasHook(r.prev, "onAfterHide")
              THEN Log(m3, Fx("onAfterHide", r.prev, "none")) ELSE m3
        m5 == Log(m4, Fx("onStepChange", r.index, r.direction))
    IN  IF steps[r.index].autoAdvance > 0
        THEN Log([m5 EXCEPT !.timers[r.index] = @ + 1], Fx("setTimeout", r.index, "none"))
        ELSE m5

\* setStep committing one past wherever the tour is at that moment
setStepCommit_fromCurrentIndex(m, r) ==
    LET index == IF r.direction = "next" /\ StepAt(m.idx + 1) # NoStep
                 THEN m.idx + 1 ELSE r.index
        m1 == Log([m EXCEPT !.idx = index], Fx("commit", index, "none"))
        m2 == Log(updateTarget(m1), Fx("updateTarget", index, "none"))
        m3 == IF HasHook(r.prev, "onAfterHide")
              THEN Log(m2, Fx("onAfterHide", r.prev, "none")) ELSE m2
        m4 == IF HasHook(index, "onAfterShow")
              THEN Log(m3, Fx("onAfterShow", index, "none")) ELSE m3
        m5 == Log(m4, Fx("onStepChange", index, r.direction))
    IN  IF steps[index].autoAdvance > 0
        THEN Log([m5 EXCEPT !.timers[index] = @ + 1], Fx("setTimeout", index, "none"))
        ELSE m5

\* setStep from "currentStepIndex.value = index" to its end
setStepCommit(m, r) ==
    LET m1 == Log([m EXCEPT !.idx = r.index], Fx("commit", r.index, "none"))
        m2 == Log(updateTarget(m1), Fx("updateTarget", r.index, "none"))
        m3 == IF HasHook(r.prev, "onAfterHide")
              THEN Log(m2, Fx("onAfterHide", r.prev, "none")) ELSE m2
        m4 == IF HasHook(r.index, "onAfterShow")
              THEN Log(m3, Fx("onAfterShow", r.index, "none")) ELSE m3
        m5 == Log(m4, Fx("onStepChange", r.index, r.direction))
    IN  IF steps[r.index].autoAdvance > 0
        THEN Log([m5 EXCEPT !.timers[r.index] = @ + 1], Fx("setTimeout", r.index, "none"))
        ELSE m5

\* setStep calling onBeforeShow without awaiting it
setStepBeforeShow_noAwait(m, r) ==
    IF HasHook(r.index, "onBeforeShow")
    THEN setStepCommit(Log(m, Fx("onBeforeShow", r.index, "none")), r)
    ELSE setStepCommit(m, r)

\* setStep from "if (nextStep.onBeforeShow)"
setStepBeforeShow(m, r) ==
    IF HasHook(r.index, "onBeforeShow")
    THEN Suspend(Log(m, Fx("onBeforeShow", r.index, "none")), r, "onBeforeShow")
    ELSE setStepCommit(m, r)

\* setStep(index, direction), up to its first await or its end
setStep(m, index, direction, origin) ==
    LET prevStep == StepAt(m.idx)
        r == [index |-> index, direction |-> direction, prev |-> prevStep,
              origin |-> origin, pc |-> "start", trace |-> <<>>]
        m0 == [m EXCEPT !.tr = <<>>]
    IN  IF StepAt(index) = NoStep
        THEN m
        ELSE IF HasHook(prevStep, "onBeforeHide")
             THEN Suspend(Log(m0, Fx("onBeforeHide", prevStep, "none")), r, "onBeforeHide")
             ELSE setStepBeforeShow(m0, r)

----------------------------------------------------------------------------
(* controls *)

\* start() without its check for an empty step list
start_unguarded(m, stepIndex) ==
    LET m1 == setStep([m EXCEPT !.status = "active"], stepIndex, "next", "start")
    IN  [m1 EXCEPT !.fx = Append(@, Fx("onStart", NoStep, "none"))]

\* start() that always begins at the first step
start_ignoresIndex(m, stepIndex) ==
    IF totalSteps = 0
    THEN m
    ELSE LET m1 == setStep([m EXCEPT !.status = "active"], 0, "next", "start")
         IN  [m1 EXCEPT !.fx = Append(@, Fx("onStart", NoStep, "none"))]

start(m, stepIndex) ==
    IF totalSteps = 0
    THEN m
    ELSE LET m1 == setStep([m EXCEPT !.status = "active"], stepIndex, "next", "start")
         IN  [m1 EXCEPT !.fx = Append(@, Fx("onStart", NoStep, "none"))]

\* stop() that reports itself the way skip() does
stop_firesOnSkip(m) ==
    [m EXCEPT !.status = "idle", !.idx = -1, !.el = NoElement, !.rect = NoRect,
              !.fx = Append(@, Fx("onSkip", NoStep, "none"))]

stop(m) ==
    [m EXCEPT !.status = "idle", !.idx = -1, !.el = NoElement, !.rect = NoRect]

complete(m) ==
    [m EXCEPT !.status = "completed", !.idx = -1, !.el = NoElement, !.rect = NoRect,
              !.fx = Append(@, Fx("onComplete", NoStep, "none"))]

\* next() that advances by two
next_skipsOne(m) ==
    IF m.status # "active"
    THEN m
    ELSE IF m.idx = totalSteps - 1
         THEN complete(m)
         ELSE setStep(m, m.idx + 2, "next", "next")

next(m) ==
    IF m.status # "active"
    THEN m
    ELSE IF m.idx = totalSteps - 1
         THEN complete(m)
         ELSE setStep(m, m.idx + 1, "next", "next")

\* previous() that leaves setStep's direction at its default
previous_defaultDirection(m) ==
    IF m.status # "active" \/ m.idx = 0
    THEN m
    ELSE setStep(m, m.idx - 1, "next", "previous")

previous(m) ==
    IF m.status # "active" \/ m.idx = 0
    THEN m
    ELSE setStep(m, m.idx - 1, "previous", "previous")

\* opts.steps.findIndex((s) => s.id === id)
RECURSIVE findIndexFrom(_, _)
findIndexFrom(id, i) ==
    IF i >= totalSteps THEN -1
    ELSE IF steps[i].id = id THEN i
    ELSE findIndexFrom(id, i + 1)

findIndex(id) == findIndexFrom(id, 0)

\* goTo that takes staying on the same step for a forward move
goToIndex_sameIsForward(m, index) ==
    IF index >= 0 /\ index < totalSteps
    THEN setStep(m, index, IF index >= m.idx THEN "next" ELSE "previous", "goTo")
    ELSE m

\* goTo(stepIndexOrId) once the argument has been turned into an index
goToIndex(m, index) ==
    IF index >= 0 /\ index < totalSteps
    THEN setStep(m, index, IF index > m.idx THEN "next" ELSE "previous", "goTo")
    ELSE m

\* goTo without its status guard
goTo_unguarded(m, isString, value) ==
    IF isString
    THEN IF findIndex(value) = -1 THEN m ELSE goToIndex(m, findIndex(value))
    ELSE goToIndex(m, value)

goTo(m, isString, value) ==
    IF m.status # "active"
    THEN m
    ELSE IF isString
         THEN IF findIndex(value) = -1 THEN m ELSE goToIndex(m, findIndex(value))
         ELSE goToIndex(m, value)

\* skip() that forgets the measured rectangle
skip_keepsRect(m) ==
    [m EXCEPT !.status = "idle", !.idx = -1, !.el = NoElement,
              !.fx = Append(@, Fx("onSkip", NoStep, "none"))]

skip(m) ==
    [m EXCEPT !.status = "idle", !.idx = -1, !.el = NoElement, !.rect = NoRect,
              !.fx = Append(@, Fx("onSkip", NoStep, "none"))]

\* pause() without its status guard
pause_unguarded(m) == [m EXCEPT !.status = "paused"]

pause(m) == IF m.status = "active" THEN [m EXCEPT !.status = "paused"] ELSE m

\* resume() that sets the current step's auto-advance timer again
resume_reschedules(m) ==
    IF m.status = "paused"
    THEN IF StepAt(m.idx) # NoStep /\ steps[m.idx].autoAdvance > 0
         THEN [m EXCEPT !.status = "active", !.timers[m.idx] = @ + 1]
         ELSE [m EXCEPT !.status = "active"]
    ELSE m

resume(m) == IF m.status = "paused" THEN [m EXCEPT !.status = "active"] ELSE m

----------------------------------------------------------------------------
(* Actions: one per synchronous run *)

\* No setStep invocation (the history's "resumed" outside a continuation)
NoRecord ==
    [index |-> NoStep, direction |-> "none", prev |-> NoStep, origin |-> "none",
     pc |-> "none", trace |-> <<>>]

\* The run ends in state m.  A run that would leave more outstanding work than
\* the model's bounds allow is not taken.
Within(m, maxPending, maxTimers) ==
    /\ Len(m.pending) <= maxPending
    /\ Len(m.raf) <= MaxRaf
    /\ \A i \in DOMAIN m.timers : m.timers[i] <= maxTimers

RunWithin(m, op, arg, maxPending, maxTimers) ==
    /\ Within(m, maxPending, maxTimers)
    /\ status' = m.status
    /\ currentStepIndex' = m.idx
    /\ targetElement' = m.el
    /\ targetRect' = m.rect
    /\ pending' = m.pending
    /\ rafQueue' = m.raf
    /\ timers' = m.timers
    /\ effects' = m.fx
    /\ lastOp' = [op |-> op, arg |-> arg]
    /\ from' = [status |-> status, idx |-> currentStepIndex,
                el |-> targetElement, rect |-> targetRect,
                pending |-> pending, raf |-> rafQueue, timers |-> timers,
                nPending |-> Len(pending),
                sameWork |-> (m.pending = pending /\ m.raf = rafQueue
                              /\ m.timers = timers),
                resumed |-> IF op \in {"settle", "reject"} THEN pending[arg]
                            ELSE NoRecord]

Run(m, op, arg) == RunWithin(m, op, arg, MaxPending, MaxTimers)

Remove(seq, k) == [j \in 1..(Len(seq) - 1) |-> IF j < k THEN seq[j] ELSE seq[j + 1]]

Init ==
    /\ steps \in StepLists
    /\ opts \in { [DefaultOptions EXCEPT !.scrollToTarget = b] : b \in BOOLEAN }
    /\ status = "idle"
    /\ currentStepIndex = -1
    /\ targetElement = NoElement
    /\ targetRect = NoRect
    /\ pending = <<>>
    /\ rafQueue = <<>>
    /\ timers = [i \in DOMAIN steps |-> 0]
    /\ dom \in SUBSET (DOMAIN steps)
    /\ layout = 0
    /\ lastOp = [op |-> "init", arg |-> -1]
    /\ effects = <<>>
    /\ from = [status |-> "idle", idx |-> -1, el |-> NoElement, rect |-> NoRect,
               pending |-> <<>>, raf |-> <<>>, timers |-> [i \in DOMAIN steps |-> 0],
               nPending |-> 0, sameWork |-> TRUE, resumed |-> NoRecord]
    /\ returned = [isActive |-> isActive]
    /\ props = DefaultProps
    /\ path = <<>>
    /\ isVisible = FALSE
    /\ currentOptions = DefaultOverlayOptions
    /\ currentTargetRect = NoTargetRect
    /\ window = [innerWidth |-> 20, innerHeight |-> 16]

StartArgs == (-1)..totalSteps
Ids == 1..(totalSteps + 1)

Start ==
    /\ \E i \in StartArgs : Run(start(Cur, i), "start", i)
    /\ UNCHANGED fixed

Stop ==
    /\ Run(stop(Cur), "stop", -1)
    /\ UNCHANGED fixed

Next_ ==
    /\ Run(next(Cur), "next", -1)
    /\ UNCHANGED fixed

Previous ==
    /\ Run(previous(Cur), "previous", -1)
    /\ UNCHANGED fixed

GoToId ==
    /\ \E id \in Ids : Run(goTo(Cur, TRUE, id), "goToId", id)
    /\ UNCHANGED fixed

GoToIndex ==
    /\ \E n \in StartArgs : Run(goTo(Cur, FALSE, n), "goToIndex", n)
    /\ UNCHANGED fixed

Skip ==
    /\ Run(skip(Cur), "skip", -1)
    /\ UNCHANGED fixed

Pause ==
    /\ Run(pause(Cur), "pause", -1)
    /\ UNCHANGED fixed

Resume ==
    /\ Run(resume(Cur), "resume", -1)
    /\ UNCHANGED fixed

Complete ==
    /\ Run(complete(Cur), "complete", -1)
    /\ UNCHANGED fixed

\* The awaited before-callback of pending[k] has settled: setStep goes on.
resumeSetStep(m, r) ==
    IF r.pc = "onBeforeHide" THEN setStepBeforeShow(m, r) ELSE setStepCommit(m, r)

Settle ==
    /\ \E k \in 1..Len(pending) :
          Run(resumeSetStep([Cur EXCEPT !.pending = Remove(pending, k),
                                        !.tr = pending[k].trace],
                            pending[k]),
              "settle", k)
    /\ UNCHANGED fixed

\* a setStep that goes on to its commit although the awaited callback failed
rejectSetStep_commitsAnyway(m, r) == setStepCommit(m, r)

\* The awaited before-callback of r threw or rejected: setStep's promise
\* rejects and nothing after the await runs.
rejectSetStep(m, r) == m

Reject ==
    /\ \E k \in 1..Len(pending) :
          Run(rejectSetStep([Cur EXCEPT !.pending = Remove(pending, k),
                                        !.tr = pending[k].trace],
                            pending[k]),
              "reject", k)
    /\ UNCHANGED fixed

\* An animation frame: every registered callback runs, in registration order.
RECURSIVE runFrame(_, _)
runFrame(m, q) ==
    IF q = <<>> THEN m
    ELSE runFrame([m EXCEPT !.rect = getBoundingClientRect(Head(q))], Tail(q))

AnimationFrame ==
    /\ rafQueue # <<>>
    /\ Run(runFrame([Cur EXCEPT !.raf = <<>>], rafQueue), "frame", -1)
    /\ UNCHANGED fixed

\* a timer callback that does not look at the tour before advancing
timerFired_unguarded(m, index) == next(m)

\* a timer callback that never advances
timerFired_neverAdvances(m, index) == m

\* The auto-advance timer set on entering step i fires.
timerFired(m, index) ==
    IF m.status = "active" /\ m.idx = index THEN next(m) ELSE m

Timer ==
    /\ \E i \in DOMAIN steps :
          /\ timers[i] > 0
          /\ Run(timerFired([Cur EXCEPT !.timers[i] = @ - 1], i), "timer", i)
    /\ UNCHANGED fixed

Next ==
    \/ Start
    \/ Stop
    \/ Next_
    \/ Previous
    \/ GoToId
    \/ GoToIndex
    \/ Skip
    \/ Pause
    \/ Resume
    \/ Complete
    \/ Settle
    \/ Reject
    \/ AnimationFrame
    \/ Timer

Spec == Init /\ [][Next]_vars

----------------------------------------------------------------------------
(* Window events: the keydown and click listeners.                         *)

\* e.key: the four keys handleKeydown names, and one it does not
Keys == {"ArrowRight", "Enter", "ArrowLeft", "Escape", "Tab"}

\* e.preventDefault()
preventDefault(m) == [m EXCEPT !.fx = Append(@, Fx("preventDefault", NoStep, "none"))]

\* a keydown listener that sends ArrowLeft forward
handleKeydown_leftAdvances(m, key) ==
    IF ~opts.keyboardNavigation \/ m.status # "active"
    THEN m
    ELSE CASE key \in {"ArrowRight", "Enter", "ArrowLeft"} -> next(preventDefault(m))
           [] key = "Escape" -> IF opts.closeOnEscape THEN skip(preventDefault(m)) ELSE m
           [] OTHER -> m

handleKeydown(m, key) ==
    IF ~opts.keyboardNavigation \/ m.status # "active"
    THEN m
    ELSE CASE key \in {"ArrowRight", "Enter"} -> next(preventDefault(m))
           [] key = "ArrowLeft" -> previous(preventDefault(m))
           [] key = "Escape" -> IF opts.closeOnEscape THEN skip(preventDefault(m)) ELSE m
           [] OTHER -> m

\* What can be clicked: the target element of a step, or something else on the page.
Elsewhere == totalSteps
ClickTargets == (DOMAIN steps) \cup {Elsewhere}

\* el.contains(target), for elements that do not nest
contains(el, target) == target = el

\* a click listener that skips wherever the click lands
handleClickOutside_anyClick(m, target) ==
    IF ~opts.closeOnClickOutside \/ m.status # "active"
    THEN m
    ELSE IF m.el # NoElement THEN skip(m) ELSE m

handleClickOutside(m, target) ==
    IF ~opts.closeOnClickOutside \/ m.status # "active"
    THEN m
    ELSE IF m.el # NoElement /\ ~contains(m.el, target) THEN skip(m) ELSE m

Keydown ==
    /\ \E key \in Keys : Run(handleKeydown(Cur, key), "keydown", key)
    /\ UNCHANGED fixed

Click ==
    /\ \E target \in ClickTargets : Run(handleClickOutside(Cur, target), "click", target)
    /\ UNCHANGED fixed

\* The tour under every combination of the three input options.
InputOptions ==
    { [DefaultOptions EXCEPT !.keyboardNavigation = k, !.closeOnClickOutside = c,
                             !.closeOnEscape = e] : k, c, e \in BOOLEAN }

InitInput ==
    /\ steps \in StepLists
    /\ opts \in InputOptions
    /\ status = "idle"
    /\ currentStepIndex = -1
    /\ targetElement = NoElement
    /\ targetRect = NoRect
    /\ pending = <<>>
    /\ rafQueue = <<>>
    /\ timers = [i \in DOMAIN steps |-> 0]
    /\ dom \in SUBSET (DOMAIN steps)
    /\ layout = 0
    /\ lastOp = [op |-> "init", arg |-> -1]
    /\ effects = <<>>
    /\ from = [status |-> "idle", idx |-> -1, el |-> NoElement, rect |-> NoRect,
               pending |-> <<>>, raf |-> <<>>, timers |-> [i \in DOMAIN steps |-> 0],
               nPending |-> 0, sameWork |-> TRUE, resumed |-> NoRecord]
    /\ returned = [isActive |-> isActive]
    /\ props = DefaultProps
    /\ path = <<>>
    /\ isVisible = FALSE
    /\ currentOptions = DefaultOverlayOptions
    /\ currentTargetRect = NoTargetRect
    /\ window = [innerWidth |-> 20, innerHeight |-> 16]

NextInput ==
    \/ Start
    \/ Pause
    \/ Resume
    \/ Settle
    \/ AnimationFrame
    \/ Timer
    \/ Keydown
    \/ Click

SpecInput == InitInput /\ [][NextInput]_vars

----------------------------------------------------------------------------
(* Window events: the resize and scroll listener, in a document whose      *)
(* elements come and go and whose layout moves.                            *)

handleResize(m) == IF m.status = "active" THEN updateTarget(m) ELSE m

\* A resize event, or a scroll event of any element (the listener captures).
Resize ==
    /\ Run(handleResize(Cur), "resize", -1)
    /\ UNCHANGED fixed

\* The page inserts or removes the element that a step's target resolves to.
DomChange ==
    /\ \E i \in DOMAIN steps :
          /\ dom' = (IF i \in dom THEN dom \ {i} ELSE dom \cup {i})
          /\ Run(Cur, "domChange", i)
    /\ UNCHANGED <<steps, opts, layout, returned, props, overlayVars>>

\* The two places the page can have its elements at.
Layouts == {0, 1}

\* The page scrolls or the window changes size: elements are somewhere else.
LayoutChange ==
    /\ \E l \in Layouts \ {layout} :
          /\ layout' = l
          /\ Run(Cur, "layoutChange", l)
    /\ UNCHANGED <<steps, opts, dom, returned, props, overlayVars>>

NextResize ==
    \/ Start
    \/ Stop
    \/ Pause
    \/ AnimationFrame
    \/ Resize
    \/ DomChange
    \/ LayoutChange

SpecResize == Init /\ [][NextResize]_vars

----------------------------------------------------------------------------
(* useOverlay: the overlay path with its cutout.                           *)
(* A path is the list of its commands.  Every length in a command is kept  *)
(* in half pixels (twice the number the source prints), so that the half-  *)
(* pixel radius of an odd-sized cutout stays an integer; an arc's three    *)
(* flags are kept as they are.                                             *)

Min(a, b) == IF a <= b THEN a ELSE b

Max(a, b) == IF a >= b THEN a ELSE b

Cmd(c, len) == [c |-> c, len |-> len, flags |-> <<>>]

\* a${r},${r} 0 0 1 ${dx},${dy}
Arc(r2, dx2, dy2) == [c |-> "a", len |-> <<r2, r2, dx2, dy2>>, flags |-> <<0, 0, 1>>]

\* Twice the radius the cutout is drawn with: 2 * max(0, min(radius, min(w/2, h/2)))
ClampedRadius2(width, height, radius) ==
    Max(0, Min(2 * radius, Min(width, height)))

OuterPath(viewportWidth, viewportHeight) ==
    << Cmd("M", <<2 * viewportWidth, 0>>), Cmd("L", <<0, 0>>),
       Cmd("L", <<0, 2 * viewportHeight>>),
       Cmd("L", <<2 * viewportWidth, 2 * viewportHeight>>),
       Cmd("L", <<2 * viewportWidth, 0>>), Cmd("Z", <<>>) >>

\* generateOverlayPath that keeps the requested radius whatever the cutout's size
generateOverlayPath_unclampedRadius(viewportWidth, viewportHeight, x, y, width, height, radius) ==
    LET r2 == 2 * radius
        inner ==
            IF r2 > 0
            THEN << Cmd("M", <<2 * x + r2, 2 * y>>),
                    Cmd("h", <<2 * width - 2 * r2>>), Arc(r2, r2, r2),
                    Cmd("v", <<2 * height - 2 * r2>>), Arc(r2, -r2, r2),
                    Cmd("h", <<-(2 * width - 2 * r2)>>), Arc(r2, -r2, -r2),
                    Cmd("v", <<-(2 * height - 2 * r2)>>), Arc(r2, r2, -r2),
                    Cmd("Z", <<>>) >>
            ELSE << Cmd("M", <<2 * x, 2 * y>>),
                    Cmd("h", <<2 * width>>), Cmd("v", <<2 * height>>),
                    Cmd("h", <<-(2 * width)>>), Cmd("v", <<-(2 * height)>>),
                    Cmd("Z", <<>>) >>
    IN  OuterPath(viewportWidth, viewportHeight) \o inner

generateOverlayPath(viewportWidth, viewportHeight, x, y, width, height, radius) ==
    LET r2 == ClampedRadius2(width, height, radius)
        inner ==
            IF r2 > 0
            THEN << Cmd("M", <<2 * x + r2, 2 * y>>),
                    Cmd("h", <<2 * width - 2 * r2>>), Arc(r2, r2, r2),
                    Cmd("v", <<2 * height - 2 * r2>>), Arc(r2, -r2, r2),
                    Cmd("h", <<-(2 * width - 2 * r2)>>), Arc(r2, -r2, -r2),
                    Cmd("v", <<-(2 * height - 2 * r2)>>), Arc(r2, r2, -r2),
                    Cmd("Z", <<>>) >>
            ELSE << Cmd("M", <<2 * x, 2 * y>>),
                    Cmd("h", <<2 * width>>), Cmd("v", <<2 * height>>),
                    Cmd("h", <<-(2 * width)>>), Cmd("v", <<-(2 * height)>>),
                    Cmd("Z", <<>>) >>
    IN  OuterPath(viewportWidth, viewportHeight) \o inner

\* { ...currentOptions, ...options }
MergeOptions(current, options) ==
    [f \in DOMAIN current |-> IF f \in DOMAIN options THEN options[f] ELSE current[f]]

\* The cutout calculatePath asks for: the rectangle with its padding, cut to the viewport.
CutoutOf(rect, padding, win) ==
    LET x == Max(0, rect.x - padding)
        y == Max(0, rect.y - padding)
    IN  [x |-> x, y |-> y,
         width |-> Max(0, Min(rect.width + padding * 2, win.innerWidth - x)),
         height |-> Max(0, Min(rect.height + padding * 2, win.innerHeight - y))]

\* The running state of useOverlay, as a handler's argument.
CurOverlay ==
    [path |-> path, isVisible |-> isVisible, currentOptions |-> currentOptions,
     currentTargetRect |-> currentTargetRect]

\* calculatePath that starts again from the default options on every call
calculatePath_fromDefaults(o, rect, options, win) ==
    LET merged == MergeOptions(DefaultOverlayOptions, options)
        o1 == [o EXCEPT !.currentOptions = merged]
    IN  IF rect = NoTargetRect
        THEN [o1 EXCEPT !.path = <<>>]
        ELSE LET c == CutoutOf(rect, merged.padding, win)
                 o2 == [o1 EXCEPT !.currentTargetRect = rect]
             IN  IF c.width <= 0 \/ c.height <= 0
                 THEN [o2 EXCEPT !.path = <<>>]
                 ELSE [o2 EXCEPT !.path =
                          generateOverlayPath(win.innerWidth, win.innerHeight,
                                              c.x, c.y, c.width, c.height,
                                              merged.radius)]

calculatePath(o, rect, options, win) ==
    LET merged == MergeOptions(o.currentOptions, options)
        o1 == [o EXCEPT !.currentOptions = merged]
    IN  IF rect = NoTargetRect
        THEN [o1 EXCEPT !.path = <<>>]
        ELSE LET c == CutoutOf(rect, merged.padding, win)
                 o2 == [o1 EXCEPT !.currentTargetRect = rect]
             IN  IF c.width <= 0 \/ c.height <= 0
                 THEN [o2 EXCEPT !.path = <<>>]
                 ELSE [o2 EXCEPT !.path =
                          generateOverlayPath(win.innerWidth, win.innerHeight,
                                              c.x, c.y, c.width, c.height,
                                              merged.radius)]

\* show that draws the path without marking the overlay visible
show_staysHidden(o, rect, options, win) ==
    calculatePath(o, rect, options, win)

show(o, rect, options, win) ==
    [calculatePath(o, rect, options, win) EXCEPT !.isVisible = TRUE]

hide(o) == [o EXCEPT !.isVisible = FALSE, !.currentTargetRect = NoTargetRect]

\* refresh that recomputes whether or not the overlay is visible
refresh_unguarded(o, rect, options, win) ==
    calculatePath(o, rect, options, win)

refresh(o, rect, options, win) ==
    IF o.isVisible THEN calculatePath(o, rect, options, win) ELSE o

getOptions(o) == o.currentOptions

NoOptions == [f \in {} |-> 0]

\* a resize listener that leaves the path drawn for the old viewport
overlayHandleResize_keepsPath(o, win) == o

\* useOverlay's handleResize
overlayHandleResize(o, win) ==
    IF o.isVisible /\ o.currentTargetRect # NoTargetRect
    THEN calculatePath(o, o.currentTargetRect, NoOptions, win)
    ELSE o

\* The rectangles, partial option sets and viewport sizes the calls are made with.
Rect(x, y, width, height) == [x |-> x, y |-> y, width |-> width, height |-> height]

TargetRects ==
    { Rect(9, 9, 2, 2), Rect(9, 9, 3, 5), Rect(-1, 9, 4, 2), Rect(18, 14, 4, 4),
      Rect(-30, 9, 4, 2), Rect(40, 9, 4, 2), Rect(9, 40, 2, 2) }

OptionValues == [padding : {1}, radius : {0}]

PartialOptions ==
    { [f \in fields |-> full[f]] : fields \in SUBSET {"padding", "radius"},
                                   full \in OptionValues }

Viewports == { [innerWidth |-> 20, innerHeight |-> 16],
               [innerWidth |-> 12, innerHeight |-> 11] }

\* The call ends with useOverlay in state o.
OverlayRun(o, op, arg) ==
    /\ path' = o.path
    /\ isVisible' = o.isVisible
    /\ currentOptions' = o.currentOptions
    /\ currentTargetRect' = o.currentTargetRect
    /\ lastOp' = [op |-> op, arg |-> arg]
    /\ from' = [path |-> path, isVisible |-> isVisible,
                currentOptions |-> currentOptions,
                currentTargetRect |-> currentTargetRect, window |-> window]
    /\ UNCHANGED <<steps, opts, progVars, dom, layout, effects, returned, props>>

Show ==
    /\ \E rect \in TargetRects, options \in PartialOptions :
          OverlayRun(show(CurOverlay, rect, options, window), "show",
                     [rect |-> rect, options |-> options])
    /\ UNCHANGED window

Hide ==
    /\ OverlayRun(hide(CurOverlay), "hide", [rect |-> NoTargetRect, options |-> NoOptions])
    /\ UNCHANGED window

Refresh ==
    /\ \E rect \in TargetRects, options \in PartialOptions :
          OverlayRun(refresh(CurOverlay, rect, options, window), "refresh",
                     [rect |-> rect, options |-> options])
    /\ UNCHANGED window

\* The window takes another size and its resize event reaches the overlay's listener.
OverlayResize ==
    \E win \in Viewports \ {window} :
       /\ window' = win
       /\ OverlayRun(overlayHandleResize(CurOverlay, win), "resize",
                     [rect |-> NoTargetRect, options |-> NoOptions])

InitOverlay ==
    /\ steps = [i \in {} |-> 0]
    /\ opts = DefaultOptions
    /\ status = "idle"
    /\ currentStepIndex = -1
    /\ targetElement = NoElement
    /\ targetRect = NoRect
    /\ pending = <<>>
    /\ rafQueue = <<>>
    /\ timers = [i \in {} |-> 0]
    /\ dom = {}
    /\ layout = 0
    /\ effects = <<>>
    /\ returned = [isActive |-> isActive]
    /\ props = DefaultProps
    /\ path = <<>>
    /\ isVisible = FALSE
    /\ currentOptions = DefaultOverlayOptions
    /\ currentTargetRect = NoTargetRect
    /\ window \in Viewports
    /\ lastOp = [op |-> "init", arg |-> [rect |-> NoTargetRect, options |-> NoOptions]]
    /\ from = [path |-> <<>>, isVisible |-> FALSE,
               currentOptions |-> DefaultOverlayOptions,
               currentTargetRect |-> NoTargetRect, window |-> window]

NextOverlay ==
    \/ Show
    \/ Hide
    \/ Refresh
    \/ OverlayResize

SpecOverlay == InitOverlay /\ [][NextOverlay]_vars

----------------------------------------------------------------------------
(* Vocabulary of the properties.  Each property is a predicate on the      *)
(* state a run leaves, read together with the history of that run: lastOp  *)
(* (which run), effects (what it did, in order) and from (where it began). *)

Count(seq, cb) == Cardinality({ j \in DOMAIN seq : seq[j].cb = cb })

Entries(seq, cb) == { seq[j] : j \in { j \in DOMAIN seq : seq[j].cb = cb } }

Null == targetElement = NoElement /\ targetRect = NoRect

ValidIndex(i) == i >= 0 /\ i < totalSteps

\* The run left the refs and the outstanding work as it found them.
NothingChanged ==
    /\ status = from.status
    /\ currentStepIndex = from.idx
    /\ targetElement = from.el
    /\ targetRect = from.rect
    /\ from.sameWork

\* The run called setStep for destination dest with direction dir on behalf of
\* origin, and the invocation either ran to its end (the index is dest and
\* onStepChange(dest, dir) is reported once) or is parked at a before-callback
\* carrying exactly that destination and direction.
TransitionBegan(origin, dest, dir) ==
    \/ /\ Len(pending) = from.nPending
       /\ currentStepIndex = dest
       /\ Count(effects, "onStepChange") = 1
       /\ Entries(effects, "onStepChange") = { Fx("onStepChange", dest, dir) }
    \/ /\ Len(pending) = from.nPending + 1
       /\ currentStepIndex = from.idx
       /\ pending[Len(pending)].origin = origin
       /\ pending[Len(pending)].index = dest
       /\ pending[Len(pending)].direction = dir
       /\ Count(effects, "onStepChange") = 0

\* The run is the continuation in which a parked setStep of origin ran to its end.
SettlesTransition(origin) ==
    /\ lastOp.op = "settle"
    /\ from.resumed.origin = origin
    /\ Len(pending) < from.nPending

\* ... and it landed on the destination and direction the invocation was called with.
TransitionLanded ==
    /\ currentStepIndex = from.resumed.index
    /\ status = from.status
    /\ Count(effects, "onStepChange") = 1
    /\ Entries(effects, "onStepChange")
          = { Fx("onStepChange", from.resumed.index, from.resumed.direction) }

OnFirstStep == isFirstStep /\ (isLastStep <=> totalSteps = 1)

----------------------------------------------------------------------------
(* C1: start() on a non-empty step list, called while idle or completed,   *)
(* sets status to active and fires onStart exactly once; its transition,   *)
(* within the call or in the continuation that settles it, sets            *)
(* currentStepIndex to the requested index (0 by default, then isFirstStep *)
(* holds and isLastStep holds exactly when there is one step), and the     *)
(* settling continuation leaves status as it finds it.                     *)
C1_StartYieldsRequestedStep ==
    /\ ( /\ lastOp.op = "start"
         /\ from.status \in {"idle", "completed"}
         /\ ValidIndex(lastOp.arg) )
       => /\ status = "active"
          /\ Count(effects, "onStart") = 1
          /\ TransitionBegan("start", lastOp.arg, "next")
          /\ (Len(pending) = from.nPending /\ lastOp.arg = 0) => OnFirstStep
    /\ SettlesTransition("start")
       => /\ TransitionLanded
          /\ from.resumed.index = 0 => OnFirstStep

\* start(1) has just run on a two-step tour that was idle or completed
C1_Witness ==
    /\ lastOp = [op |-> "start", arg |-> 1]
    /\ from.status \in {"idle", "completed"}
    /\ status = "active"
    /\ currentStepIndex = 1
    /\ isLastStep /\ ~isFirstStep
    /\ Count(effects, "onStart") = 1

----------------------------------------------------------------------------
(* C2: next() while active.  On the last step: status becomes completed,   *)
(* currentStepIndex -1, targetElement and targetRect are cleared and the   *)
(* only callback fired is onComplete, once.  On any other step: setStep is *)
(* called for currentStepIndex + 1 with direction "next"; when it has run  *)
(* to its end the index is that destination and onStepChange has been      *)
(* told "next".                                                            *)
C2_NextAdvancesOrCompletes ==
    /\ (lastOp.op = "next" /\ from.status = "active")
       => IF from.idx = totalSteps - 1
          THEN /\ status = "completed"
               /\ currentStepIndex = -1
               /\ Null
               /\ effects = << Fx("onComplete", NoStep, "none") >>
               /\ from.sameWork
          ELSE /\ status = "active"
               /\ TransitionBegan("next", from.idx + 1, "next")
    /\ SettlesTransition("next")
       => /\ TransitionLanded
          /\ from.resumed.direction = "next"

\* next() has just completed a two-step tour
C2_Witness ==
    /\ lastOp.op = "next"
    /\ from.status = "active"
    /\ from.idx = 1
    /\ status = "completed"
    /\ totalSteps = 2
    /\ Count(effects, "onComplete") = 1

----------------------------------------------------------------------------
(* C3: previous() while active.  At index 0 nothing changes and nothing is *)
(* fired.  At an index above 0 setStep is called for currentStepIndex - 1  *)
(* with direction "previous"; when it has run to its end the index is that *)
(* destination and onStepChange has been told "previous".                  *)
C3_PreviousRetreatsOrStays ==
    /\ (lastOp.op = "previous" /\ from.status = "active" /\ from.idx = 0)
       => NothingChanged /\ effects = <<>>
    /\ (lastOp.op = "previous" /\ from.status = "active" /\ from.idx > 0)
       => /\ status = "active"
          /\ TransitionBegan("previous", from.idx - 1, "previous")
    /\ SettlesTransition("previous")
       => /\ TransitionLanded
          /\ from.resumed.direction = "previous"

\* previous() has just run on the first step of an active tour
C3_Witness ==
    /\ lastOp.op = "previous"
    /\ from.status = "active"
    /\ from.idx = 0
    /\ targetElement = 0

----------------------------------------------------------------------------
(* C4: goTo while active.  An identifier no step has: nothing changes and  *)
(* nothing is fired.  An identifier some step has: setStep is called for   *)
(* that step's position, with direction "next" exactly when the position   *)
(* is greater than the index at the call; when it has run to its end the   *)
(* index is that position.  A number outside 0..totalSteps-1: nothing      *)
(* changes.                                                                *)
PositionsOf(id) == { p \in DOMAIN steps : steps[p].id = id }

C4_GoToJumpsOrStays ==
    /\ (lastOp.op = "goToId" /\ from.status = "active" /\ PositionsOf(lastOp.arg) = {})
       => NothingChanged /\ effects = <<>>
    /\ (lastOp.op = "goToId" /\ from.status = "active")
       => \A p \in PositionsOf(lastOp.arg) :
             /\ status = "active"
             /\ TransitionBegan("goTo", p, IF p > from.idx THEN "next" ELSE "previous")
    /\ (lastOp.op = "goToIndex" /\ from.status = "active" /\ ~ValidIndex(lastOp.arg))
       => NothingChanged /\ effects = <<>>
    /\ SettlesTransition("goTo") => TransitionLanded

\* goTo('step1') has just taken an active tour from its second step back to its first
C4_Witness ==
    /\ lastOp = [op |-> "goToId", arg |-> 1]
    /\ from.status = "active"
    /\ from.idx = 1
    /\ status = "active"
    /\ currentStepIndex = 0
    /\ Fx("onStepChange", 0, "previous") \in Entries(effects, "onStepChange")

----------------------------------------------------------------------------
(* C5: in the state that skip() or stop() leaves, whatever the status it   *)
(* was called in, status is idle, currentStepIndex is -1 and targetElement *)
(* and targetRect are absent.                                              *)
C5_SkipStopBaseline ==
    lastOp.op \in {"skip", "stop"}
       => status = "idle" /\ currentStepIndex = -1 /\ Null

\* skip() has just run on a paused tour that had a step and a target
C5_Witness ==
    /\ lastOp.op = "skip"
    /\ from.status = "paused"
    /\ from.idx = 1
    /\ from.rect # NoRect
    /\ Count(effects, "onSkip") = 1
    /\ status = "idle"

----------------------------------------------------------------------------
(* C6: pause() takes active to paused and resume() takes paused to active, *)
(* neither touching currentStepIndex, targetElement or targetRect; pause() *)
(* in another status and resume() in another status change nothing.        *)
C6_PauseResumeOnlyFlipStatus ==
    /\ (lastOp.op = "pause" /\ from.status = "active") => status = "paused"
    /\ (lastOp.op = "resume" /\ from.status = "paused") => status = "active"
    /\ (lastOp.op = "pause" /\ from.status # "active") => NothingChanged
    /\ (lastOp.op = "resume" /\ from.status # "paused") => NothingChanged
    /\ lastOp.op \in {"pause", "resume"}
       => /\ currentStepIndex = from.idx
          /\ targetElement = from.el
          /\ targetRect = from.rect
          /\ from.sameWork
          /\ effects = <<>>

\* resume() has just run on a tour paused on its second step
C6_Witness ==
    /\ lastOp.op = "resume"
    /\ from.status = "paused"
    /\ status = "active"
    /\ currentStepIndex = 1
    /\ targetElement # NoElement

----------------------------------------------------------------------------
(* C7: every setStep invocation that runs to its end has performed, over   *)
(* the runs it took, exactly these effects in this order: onBeforeHide of  *)
(* the step left (if a step is left and has it), onBeforeShow of the       *)
(* destination (if it has it), the commit of currentStepIndex, the         *)
(* resolution of the target, onAfterHide of the step left, onAfterShow of  *)
(* the destination, onStepChange(destination, direction); and a parked     *)
(* invocation has performed exactly the part up to the callback it awaits. *)
Opt(cond, e) == IF cond THEN << e >> ELSE << >>

BeforeHidePart(prev) ==
    Opt(HasHook(prev, "onBeforeHide"), Fx("onBeforeHide", prev, "none"))

BeforeShowPart(dest) ==
    Opt(HasHook(dest, "onBeforeShow"), Fx("onBeforeShow", dest, "none"))

ProtocolOrder(prev, dest, dir) ==
    BeforeHidePart(prev) \o BeforeShowPart(dest)
    \o << Fx("commit", dest, "none"), Fx("updateTarget", dest, "none") >>
    \o Opt(HasHook(prev, "onAfterHide"), Fx("onAfterHide", prev, "none"))
    \o Opt(HasHook(dest, "onAfterShow"), Fx("onAfterShow", dest, "none"))
    \o << Fx("onStepChange", dest, dir) >>

IsProtocolEffect(e) == e.cb \notin {"onStart", "setTimeout"}

\* The direction each caller of setStep passes (goTo: by comparing the indices).
DirectionOf(op, origin, dest) ==
    IF op = "previous" THEN "previous"
    ELSE IF op \in {"goToId", "goToIndex"}
         THEN (IF dest > origin THEN "next" ELSE "previous")
         ELSE "next"

C7_StepChangeProtocolOrder ==
    /\ (Count(effects, "commit") > 0 /\ lastOp.op = "settle")
       => from.resumed.trace \o SelectSeq(effects, IsProtocolEffect)
             = ProtocolOrder(from.resumed.prev, from.resumed.index,
                             from.resumed.direction)
    /\ (Count(effects, "commit") > 0 /\ lastOp.op # "settle")
       => SelectSeq(effects, IsProtocolEffect)
             = ProtocolOrder(StepAt(from.idx), currentStepIndex,
                             DirectionOf(lastOp.op, from.idx, currentStepIndex))
    /\ \A k \in DOMAIN pending :
          /\ pending[k].pc = "onBeforeHide"
             => pending[k].trace = BeforeHidePart(pending[k].prev)
          /\ pending[k].pc = "onBeforeShow"
             => pending[k].trace = BeforeHidePart(pending[k].prev)
                                      \o BeforeShowPart(pending[k].index)
          /\ pending[k].trace # << >>

\* a transition between two steps that have all four callbacks has run to its end
C7_Witness ==
    /\ lastOp.op = "settle"
    /\ Len(from.resumed.trace) = 2
    /\ currentStepIndex = 1
    /\ Count(effects, "commit") = 1
    /\ Count(effects, "onAfterHide") = 1
    /\ Count(effects, "onAfterShow") = 1
    /\ Count(effects, "onStepChange") = 1

----------------------------------------------------------------------------
(* C8: a run invokes at most one before-callback, and a run that invokes   *)
(* one parks the invocation there: it commits nothing and leaves           *)
(* currentStepIndex, targetElement and targetRect as they were.  The       *)
(* destination's onBeforeShow is invoked in the call itself only when the  *)
(* step left has no onBeforeHide, and otherwise in the continuation of the *)
(* invocation parked at onBeforeHide.                                      *)
BeforeCalls(seq) == Count(seq, "onBeforeHide") + Count(seq, "onBeforeShow")

C8_BeforeCallbacksAwaitedInTurn ==
    /\ BeforeCalls(effects) <= 1
    /\ BeforeCalls(effects) = 1
       => /\ Count(effects, "commit") = 0
          /\ currentStepIndex = from.idx
          /\ targetElement = from.el
          /\ targetRect = from.rect
          /\ pending # << >>
          /\ Count(effects, pending[Len(pending)].pc) = 1
    /\ (Count(effects, "onBeforeShow") = 1 /\ lastOp.op # "settle")
       => ~HasHook(StepAt(from.idx), "onBeforeHide")
    /\ (Count(effects, "onBeforeShow") = 1 /\ lastOp.op = "settle")
       => /\ from.resumed.pc = "onBeforeHide"
          /\ HasHook(from.resumed.prev, "onBeforeHide")

\* onBeforeHide has settled and onBeforeShow is now being awaited
C8_Witness ==
    /\ lastOp.op = "settle"
    /\ from.resumed.pc = "onBeforeHide"
    /\ Count(effects, "onBeforeShow") = 1
    /\ pending # << >>
    /\ pending[1].pc = "onBeforeShow"
    /\ Len(pending[1].trace) = 2
    /\ currentStepIndex # pending[1].index

----------------------------------------------------------------------------
(* C9: whenever status is idle or completed, currentStepIndex is -1 and    *)
(* targetElement and targetRect are absent.                                *)
C9_InactiveBaseline ==
    status \in {"idle", "completed"} => currentStepIndex = -1 /\ Null

----------------------------------------------------------------------------
(* C10: targetRect is present only if targetElement is present.            *)
C10_RectOnlyWithElement ==
    targetRect # NoRect => targetElement # NoElement

----------------------------------------------------------------------------
(* The state a run began in, as a handler's argument, and the comparison   *)
(* of the state the run left with a handler's result.                      *)

Pre ==
    [status |-> from.status, idx |-> from.idx, el |-> from.el, rect |-> from.rect,
     pending |-> from.pending, raf |-> from.raf, timers |-> from.timers,
     fx |-> <<>>, tr |-> <<>>]

LeftAs(m) ==
    /\ status = m.status
    /\ currentStepIndex = m.idx
    /\ targetElement = m.el
    /\ targetRect = m.rect
    /\ pending = m.pending
    /\ rafQueue = m.raf
    /\ timers = m.timers
    /\ effects = m.fx

----------------------------------------------------------------------------
(* C11: a run schedules an auto-advance timer exactly when it completes a  *)
(* transition into a step with autoAdvance > 0, and then exactly one, for  *)
(* that step; no other run adds a timer.  When the timer scheduled on      *)
(* entering step i fires it is consumed, and the run is next() if status   *)
(* is active and currentStepIndex is i at that moment, and otherwise       *)
(* changes nothing else and fires nothing.                                 *)
EntersAutoAdvanceStep(i) ==
    /\ Count(effects, "commit") = 1
    /\ currentStepIndex = i
    /\ steps[i].autoAdvance > 0

TimerFiredFor(i) == lastOp.op = "timer" /\ lastOp.arg = i

C11_AutoAdvanceTimerOncePerEntry ==
    /\ Count(effects, "commit") <= 1
    /\ Count(effects, "setTimeout")
          = Cardinality({ i \in DOMAIN steps : EntersAutoAdvanceStep(i) })
    /\ \A i \in DOMAIN steps :
          /\ EntersAutoAdvanceStep(i)
             => Entries(effects, "setTimeout") = { Fx("setTimeout", i, "none") }
          /\ timers[i] = from.timers[i]
                            + (IF EntersAutoAdvanceStep(i) THEN 1 ELSE 0)
                            - (IF TimerFiredFor(i) THEN 1 ELSE 0)
    /\ \A i \in DOMAIN steps :
          TimerFiredFor(i)
             => LET consumed == [Pre EXCEPT !.timers[i] = @ - 1]
                IN  IF from.status = "active" /\ from.idx = i
                    THEN LeftAs(next(consumed))
                    ELSE LeftAs(consumed)

\* the timer of a step the tour has meanwhile left fires while the tour is active
C11_Witness ==
    /\ lastOp.op = "timer"
    /\ from.status = "active"
    /\ from.idx # lastOp.arg
    /\ from.idx # -1
    /\ status = "active"
    /\ currentStepIndex = from.idx
    /\ effects = <<>>

----------------------------------------------------------------------------
(* C12: next(), previous() and goTo() called while status is idle, paused  *)
(* or completed leave every ref and all outstanding work as they were and  *)
(* fire nothing; and a run that finds status completed and leaves it       *)
(* active is a start().                                                    *)
C12_NavigationInertUnlessActive ==
    /\ ( /\ lastOp.op \in {"next", "previous", "goToId", "goToIndex"}
         /\ from.status # "active" )
       => LeftAs(Pre)
    /\ (from.status = "completed" /\ status = "active") => lastOp.op = "start"

\* goTo('step2') has just been called on a paused tour standing on its first step
C12_Witness ==
    /\ lastOp = [op |-> "goToId", arg |-> 2]
    /\ totalSteps = 2
    /\ from.status = "paused"
    /\ from.idx = 0
    /\ status = "paused"

----------------------------------------------------------------------------
(* C13: a run that completes a transition into a step whose target         *)
(* resolves to no element has committed that step's index, leaves          *)
(* targetElement and targetRect absent, registers no re-measurement, and   *)
(* leaves status active (the continuation of a parked transition: as it    *)
(* found it).                                                              *)
C13_MissingTargetStillCommits ==
    (Count(effects, "commit") = 1 /\ resolveTarget(currentStep) = NoElement)
       => /\ ValidIndex(currentStepIndex)
          /\ Entries(effects, "commit") = { Fx("commit", currentStepIndex, "none") }
          /\ Null
          /\ rafQueue = from.raf
          /\ status = (IF lastOp.op \in {"settle"} THEN from.status ELSE "active")

\* next() has just moved from a step with a measured target to one whose target is missing
C13_Witness ==
    /\ lastOp.op = "next"
    /\ Count(effects, "commit") = 1
    /\ from.rect # NoRect
    /\ currentStepIndex = 1
    /\ 1 \notin dom
    /\ status = "active"

----------------------------------------------------------------------------
(* C14: start() on a tour with an empty step list leaves every ref and all *)
(* outstanding work as they were and fires nothing: status is not active   *)
(* and currentStepIndex is still -1.                                       *)
C14_StartOnEmptyListIsNoOp ==
    (lastOp.op = "start" /\ totalSteps = 0)
       => /\ LeftAs(Pre)
          /\ status = from.status
          /\ status # "active"
          /\ currentStepIndex = -1

\* start() has just been called on an idle tour without steps
C14_Witness ==
    /\ lastOp.op = "start"
    /\ totalSteps = 0
    /\ from.status = "idle"
    /\ status = "idle"

----------------------------------------------------------------------------
(* C15: the isActive value in the object useTour returned is true exactly  *)
(* when status is active.                                                  *)
C15_ReturnedIsActiveTracksStatus ==
    returned.isActive <=> status = "active"

----------------------------------------------------------------------------
(* C16: in a start() call, onStart is fired before the first step's        *)
(* onBeforeShow and onAfterShow.                                           *)
C16_OnStartBeforeStepCallbacks ==
    lastOp.op = "start"
       => \A j, k \in DOMAIN effects :
             ( /\ effects[j].cb = "onStart"
               /\ effects[k].cb \in {"onBeforeShow", "onAfterShow"} )
             => j < k

----------------------------------------------------------------------------
(* C17: stop() fires no callback at all, whatever the status and whatever  *)
(* callbacks the step it leaves has; skip() fires onSkip once and nothing  *)
(* else.                                                                   *)
C17_StopSilentSkipFiresOnSkip ==
    /\ lastOp.op = "stop" => effects = <<>>
    /\ lastOp.op = "skip" => effects = << Fx("onSkip", NoStep, "none") >>

\* stop() has just left a step that has onBeforeHide and onAfterHide
C17_Witness ==
    /\ lastOp.op = "stop"
    /\ from.status = "active"
    /\ HasHook(StepAt(from.idx), "onBeforeHide")
    /\ HasHook(StepAt(from.idx), "onAfterHide")
    /\ status = "idle"

----------------------------------------------------------------------------
(* Keyboard and pointer input *)

KeyPressed(key) == lastOp.op = "keydown" /\ lastOp.arg = key

\* The run left the tour as handler result m does; what it did to the event
\* itself (preventDefault) is not part of the comparison.
IsTourEffect(e) == e.cb # "preventDefault"

ActedAs(m) ==
    /\ status = m.status
    /\ currentStepIndex = m.idx
    /\ targetElement = m.el
    /\ targetRect = m.rect
    /\ pending = m.pending
    /\ rafQueue = m.raf
    /\ timers = m.timers
    /\ SelectSeq(effects, IsTourEffect) = m.fx

----------------------------------------------------------------------------
(* C18: an Escape keydown is skip() (status becomes idle, onSkip fires)    *)
(* exactly when status is active and closeOnEscape is enabled; in every    *)
(* other case it changes nothing.                                          *)
C18_EscapeSkipsIffCloseOnEscape ==
    KeyPressed("Escape")
       => IF from.status = "active" /\ opts.closeOnEscape
          THEN ActedAs(skip(Pre))
          ELSE ActedAs(Pre)

----------------------------------------------------------------------------
(* C19: while status is active and keyboardNavigation is enabled, an       *)
(* ArrowRight or Enter keydown leaves the tour exactly as next() does and  *)
(* an ArrowLeft keydown exactly as previous() does; when status is not     *)
(* active or keyboardNavigation is disabled these keys change nothing; a   *)
(* key other than ArrowRight, Enter, ArrowLeft and Escape changes nothing. *)
C19_ArrowKeysAreNextAndPrevious ==
    lastOp.op = "keydown"
       => LET key == lastOp.arg
              listening == from.status = "active" /\ opts.keyboardNavigation
          IN  /\ (listening /\ key \in {"ArrowRight", "Enter"}) => ActedAs(next(Pre))
              /\ (listening /\ key = "ArrowLeft") => ActedAs(previous(Pre))
              /\ (~listening /\ key \in {"ArrowRight", "Enter", "ArrowLeft"})
                 => LeftAs(Pre)
              /\ key \notin {"ArrowRight", "Enter", "ArrowLeft", "Escape"}
                 => LeftAs(Pre)

\* ArrowLeft has just taken an active tour from its second step back to its first
C19_Witness ==
    /\ KeyPressed("ArrowLeft")
    /\ opts.keyboardNavigation
    /\ from.status = "active"
    /\ from.idx = 1
    /\ currentStepIndex = 0
    /\ Fx("onStepChange", 0, "previous") \in Entries(effects, "onStepChange")

----------------------------------------------------------------------------
(* C20: with closeOnClickOutside enabled and status active, a click whose  *)
(* target is not contained in the present targetElement is skip(); a click *)
(* inside targetElement, any click while closeOnClickOutside is disabled   *)
(* or status is not active, and any click while targetElement is absent    *)
(* changes nothing.                                                        *)
C20_ClickOutsideSkips ==
    lastOp.op = "click"
       => IF /\ opts.closeOnClickOutside
             /\ from.status = "active"
             /\ from.el # NoElement
             /\ ~contains(from.el, lastOp.arg)
          THEN LeftAs(skip(Pre))
          ELSE LeftAs(Pre)

\* a click on the target element itself has just left an active tour running
C20_Witness ==
    /\ lastOp.op = "click"
    /\ opts.closeOnClickOutside
    /\ from.status = "active"
    /\ from.el # NoElement
    /\ lastOp.arg = from.el
    /\ status = "active"
    /\ targetElement = from.el

----------------------------------------------------------------------------
(* C21: a resize or scroll event while status is active re-measures        *)
(* targetRect and leaves targetElement as it was; while status is not      *)
(* active it changes nothing.                                              *)
C21_ResizeRemeasuresSameElement ==
    lastOp.op = "resize"
       => IF from.status = "active"
          THEN /\ targetElement = from.el
               /\ targetElement # NoElement
                  => targetRect = getBoundingClientRect(targetElement)
               /\ status = from.status
               /\ currentStepIndex = from.idx
          ELSE LeftAs(Pre)

----------------------------------------------------------------------------
----------------------------------------------------------------------------
(* useOverlay: vocabulary.  In the overlay's specification lastOp.arg is   *)
(* the call's rectangle and options, and from is the overlay and viewport  *)
(* the call found.                                                         *)

PreOverlay ==
    [path |-> from.path, isVisible |-> from.isVisible,
     currentOptions |-> from.currentOptions,
     currentTargetRect |-> from.currentTargetRect]

\* The call went through calculatePath with the rectangle it was given.
Recomputed ==
    \/ lastOp.op = "show"
    \/ lastOp.op = "refresh" /\ from.isVisible

CountCmd(p, c) == Cardinality({ j \in DOMAIN p : p[j].c = c })

\* The inner sub-path: what follows the outer sub-path's six commands.
InnerPath(p) == SubSeq(p, 7, Len(p))

\* The rectangle the inner sub-path cuts out, read off the path (in half pixels).
DrawnRadius2(p) == IF p[9].c = "a" THEN p[9].len[1] ELSE 0

DrawnCutout2(p) ==
    LET r2 == DrawnRadius2(p)
        right == IF r2 > 0 THEN p[10] ELSE p[9]
    IN  [x |-> p[7].len[1] - r2, y |-> p[7].len[2],
         width |-> p[8].len[1] + 2 * r2, height |-> right.len[1] + 2 * r2]

----------------------------------------------------------------------------
(* C23: after show(rect, options) in a viewport W x H, when a cutout is    *)
(* rendered, isVisible is true and path is exactly two closed sub-paths:   *)
(* the outer one M W,0 L0,0 L0,H L W,H L W,0 Z, then one inner sub-path    *)
(* beginning at (max(0, rect.x - padding) + r, max(0, rect.y - padding)),  *)
(* r the clamped corner radius.                                            *)
C23_ShowDrawsOuterAndCutout ==
    (lastOp.op = "show" /\ path # <<>>)
       => LET W == window.innerWidth
              H == window.innerHeight
              rect == lastOp.arg.rect
              padding == currentOptions.padding
              c == CutoutOf(rect, padding, window)
              r2 == Max(0, Min(2 * currentOptions.radius, Min(c.width, c.height)))
          IN  /\ isVisible
              /\ CountCmd(path, "Z") = 2
              /\ CountCmd(path, "M") = 2
              /\ SubSeq(path, 1, 6)
                    = << Cmd("M", <<2 * W, 0>>), Cmd("L", <<0, 0>>),
                         Cmd("L", <<0, 2 * H>>), Cmd("L", <<2 * W, 2 * H>>),
                         Cmd("L", <<2 * W, 0>>), Cmd("Z", <<>>) >>
              /\ path[7] = Cmd("M", << 2 * Max(0, rect.x - padding) + r2,
                                       2 * Max(0, rect.y - padding) >>)
              /\ path[Len(path)] = Cmd("Z", <<>>)

\* show() has just drawn a 5 x 7 cutout, whose corner radius is 2.5
C23_Witness ==
    /\ lastOp.op = "show"
    /\ lastOp.arg.rect = Rect(9, 9, 3, 5)
    /\ currentOptions.padding = 1
    /\ currentOptions.radius = 4
    /\ path # <<>>
    /\ path[7] = Cmd("M", <<21, 16>>)
    /\ isVisible

----------------------------------------------------------------------------
(* C24: refresh(rect, options) on a visible overlay leaves it exactly as   *)
(* show(rect, options) would; on an overlay that is not visible it changes *)
(* nothing and does not make it visible.                                   *)
C24_RefreshIsShowWhenVisible ==
    lastOp.op = "refresh"
       => IF from.isVisible
          THEN CurOverlay = show(PreOverlay, lastOp.arg.rect, lastOp.arg.options, window)
          ELSE CurOverlay = PreOverlay /\ ~isVisible

\* refresh() with another rectangle has just redrawn a visible overlay
C24_Witness ==
    /\ lastOp.op = "refresh"
    /\ from.isVisible
    /\ from.path # <<>>
    /\ path # <<>>
    /\ path # from.path
    /\ lastOp.arg.rect # from.currentTargetRect

----------------------------------------------------------------------------
(* C25: after refresh(rect) on a hidden overlay (hide() then refresh),     *)
(* whatever show and refresh calls came before, path is the empty string.  *)
C25_PathEmptyAfterHideRefresh ==
    (lastOp.op = "refresh" /\ ~from.isVisible) => path = <<>>

----------------------------------------------------------------------------
(* C26: when the target rectangle inflated by padding lies entirely        *)
(* outside the viewport (to the left, to the right, above or below), show  *)
(* and refresh produce the empty path.                                     *)
EntirelyOutside(rect, padding, win) ==
    \/ rect.x + rect.width + padding <= 0
    \/ rect.x - padding >= win.innerWidth
    \/ rect.y + rect.height + padding <= 0
    \/ rect.y - padding >= win.innerHeight

C26_OffscreenTargetGivesEmptyPath ==
    (Recomputed /\ EntirelyOutside(lastOp.arg.rect, currentOptions.padding, window))
       => path = <<>>

----------------------------------------------------------------------------
(* C27: whenever a cutout is rendered, the cutout is the target rectangle  *)
(* inflated by padding and clamped to the viewport: x >= 0, y >= 0,        *)
(* x + w <= viewport width, y + h <= viewport height, and it lies within   *)
(* the inflated target rectangle.                                          *)
C27_CutoutWithinInflatedTarget ==
    (isVisible /\ path # <<>>)
       => LET c == DrawnCutout2(path)
              t == currentTargetRect
              p == currentOptions.padding
          IN  /\ c.x >= 0
              /\ c.y >= 0
              /\ c.x + c.width <= 2 * window.innerWidth
              /\ c.y + c.height <= 2 * window.innerHeight
              /\ c.x >= 2 * (t.x - p)
              /\ c.y >= 2 * (t.y - p)
              /\ c.x + c.width <= 2 * (t.x + t.width + p)
              /\ c.y + c.height <= 2 * (t.y + t.height + p)

----------------------------------------------------------------------------
(* C28: the corner radius of a rendered cutout is r = max(0, min(radius,   *)
(* min(w, h) / 2)), w and h the clamped cutout's width and height; when    *)
(* r > 0 the inner sub-path has exactly four arcs, all of radius r and of  *)
(* the same sweep direction, and when r = 0 it has no arc, only h and v    *)
(* edges.                                                                  *)
C28_CornerRadiusClamped ==
    (isVisible /\ path # <<>>)
       => LET c == CutoutOf(currentTargetRect, currentOptions.padding, window)
              r2 == Max(0, Min(2 * currentOptions.radius, Min(c.width, c.height)))
              inner == InnerPath(path)
              arcs == { j \in DOMAIN inner : inner[j].c = "a" }
          IN  /\ r2 > 0
                 => /\ Cardinality(arcs) = 4
                    /\ \A j \in arcs : inner[j].len[1] = r2 /\ inner[j].len[2] = r2
                    /\ \A j, k \in arcs : inner[j].flags = inner[k].flags
              /\ r2 = 0
                 => /\ arcs = {}
                    /\ \A j \in DOMAIN inner : inner[j].c \in {"M", "h", "v", "Z"}
                    /\ CountCmd(inner, "h") = 2
                    /\ CountCmd(inner, "v") = 2

\* a visible overlay whose 5 x 7 cutout has its radius 4 clamped to 2.5
C28_Witness ==
    /\ isVisible
    /\ path # <<>>
    /\ currentTargetRect = Rect(9, 9, 3, 5)
    /\ currentOptions.padding = 1
    /\ currentOptions.radius = 4
    /\ CountCmd(path, "a") = 4
    /\ path[9].len[1] = 5

----------------------------------------------------------------------------
(* C29: the options accumulate: show(), and refresh() while visible,       *)
(* override exactly the fields they are given and leave every other field  *)
(* at the value the previous call left (at first padding 8, radius 4,      *)
(* opacity 0.75, color black, animation duration 300); every other call    *)
(* leaves the options alone; getOptions() returns the accumulated values.  *)
C29_OptionsAccumulate ==
    /\ lastOp.op = "init"
       => /\ currentOptions.padding = 8
          /\ currentOptions.radius = 4
          /\ currentOptions.opacity = 75
          /\ currentOptions.color = "black"
          /\ currentOptions.animationDuration = 300
    /\ Recomputed
       => \A f \in DOMAIN from.currentOptions :
             getOptions(CurOverlay)[f]
                = (IF f \in DOMAIN lastOp.arg.options
                   THEN lastOp.arg.options[f]
                   ELSE from.currentOptions[f])
    /\ (lastOp.op # "init" /\ ~Recomputed) => currentOptions = from.currentOptions
    /\ DOMAIN getOptions(CurOverlay) = DOMAIN DefaultOverlayOptions

\* show() given only a radius has just kept the padding an earlier call set
C29_Witness ==
    /\ lastOp.op = "show"
    /\ DOMAIN lastOp.arg.options = {"radius"}
    /\ from.currentOptions.padding = 1
    /\ from.currentOptions.radius = 4
    /\ currentOptions.padding = 1
    /\ currentOptions.radius = 0

----------------------------------------------------------------------------
(* C30: a window resize while the overlay is visible recomputes path from  *)
(* the last rectangle passed to show/refresh, the current options and the  *)
(* new viewport size; hide() marks the overlay invisible and discards the  *)
(* stored rectangle, so a resize after hide() or before any show() leaves  *)
(* path and isVisible (and everything else) as they were.                  *)
C30_ResizeRecomputesWhileVisible ==
    /\ Recomputed => currentTargetRect = lastOp.arg.rect
    /\ lastOp.op = "hide" => ~isVisible /\ currentTargetRect = NoTargetRect
    /\ ~isVisible => currentTargetRect = NoTargetRect
    /\ (lastOp.op = "resize" /\ from.isVisible)
       => LET c == CutoutOf(from.currentTargetRect, from.currentOptions.padding, window)
          IN  /\ window # from.window
              /\ path = (IF c.width <= 0 \/ c.height <= 0
                         THEN <<>>
                         ELSE generateOverlayPath(window.innerWidth, window.innerHeight,
                                                  c.x, c.y, c.width, c.height,
                                                  from.currentOptions.radius))
              /\ isVisible
              /\ currentOptions = from.currentOptions
              /\ currentTargetRect = from.currentTargetRect
    /\ (lastOp.op = "resize" /\ ~from.isVisible) => CurOverlay = PreOverlay

\* a resize has just redrawn the path of a visible overlay for the new viewport
C30_Witness ==
    /\ lastOp.op = "resize"
    /\ from.isVisible
    /\ from.path # <<>>
    /\ path # <<>>
    /\ path # from.path
    /\ path[1] = Cmd("M", <<2 * window.innerWidth, 0>>)

----------------------------------------------------------------------------
(* C33: whenever status is active or paused there is a current step:       *)
(* 0 <= currentStepIndex < totalSteps.                                     *)
C33_RunningTourHasCurrentStep ==
    status \in {"active", "paused"} => ValidIndex(currentStepIndex)

----------------------------------------------------------------------------
(* C34: a run that finds status paused and is not resume(), start(),       *)
(* stop(), skip() or complete() leaves currentStepIndex, targetElement and *)
(* targetRect as they were.                                                *)
C34_PausedTourHoldsStill ==
    ( /\ from.status = "paused"
      /\ lastOp.op \notin {"init", "resume", "start", "stop", "skip", "complete"} )
       => /\ currentStepIndex = from.idx
          /\ targetElement = from.el
          /\ targetRect = from.rect

----------------------------------------------------------------------------
(* C36: when the before-callback a transition awaits throws or rejects,    *)
(* the transition is abandoned: status, currentStepIndex, targetElement    *)
(* and targetRect stay as they were, nothing is fired and no timer or      *)
(* frame is registered.  Status is not rolled back: a start() from idle or *)
(* completed that parks has already set status active and fired onStart    *)
(* with currentStepIndex still what it was (-1 in the idle baseline), and  *)
(* the failure leaves it so.                                               *)
C36_FailedBeforeCallbackAbandons ==
    /\ lastOp.op = "reject"
       => /\ status = from.status
          /\ currentStepIndex = from.idx
          /\ targetElement = from.el
          /\ targetRect = from.rect
          /\ effects = <<>>
          /\ timers = from.timers
          /\ rafQueue = from.raf
          /\ pending = Remove(from.pending, lastOp.arg)
    /\ ( /\ lastOp.op = "start"
         /\ from.status \in {"idle", "completed"}
         /\ Len(pending) = from.nPending + 1 )
       => /\ status = "active"
          /\ currentStepIndex = from.idx
          /\ Count(effects, "onStart") = 1
          /\ Count(effects, "commit") = 0

\* the onBeforeShow of a start() from idle has just failed
C36_Witness ==
    /\ lastOp.op = "reject"
    /\ from.resumed.origin = "start"
    /\ from.resumed.pc = "onBeforeShow"
    /\ from.pending = << from.resumed >>
    /\ status = "active"
    /\ currentStepIndex = -1
    /\ pending = <<>>

----------------------------------------------------------------------------
(* C39: the auto-advance timer of the current step firing while status is  *)
(* paused is consumed and does nothing else; resume() sets no timer and    *)
(* fires nothing, so after it only the timers that were outstanding before *)
(* are outstanding.                                                        *)
C39_TimerLostWhilePaused ==
    /\ \A i \in DOMAIN steps :
          (TimerFiredFor(i) /\ from.status = "paused")
             => LeftAs([Pre EXCEPT !.timers[i] = @ - 1])
    /\ lastOp.op = "resume"
       => /\ timers = from.timers
          /\ pending = from.pending
          /\ rafQueue = from.raf
          /\ currentStepIndex = from.idx
          /\ effects = <<>>

\* resume() has just run on an auto-advance step whose timer fired during the pause
C39_Witness ==
    /\ lastOp.op = "resume"
    /\ from.status = "paused"
    /\ status = "active"
    /\ ValidIndex(currentStepIndex)
    /\ steps[currentStepIndex].autoAdvance > 0
    /\ timers[currentStepIndex] = 0
    /\ pending = <<>>

----------------------------------------------------------------------------
(* Overlapping calls: the same handlers, with up to MaxOverlap transitions *)
(* parked at once and up to MaxOverlap timers outstanding for one step.    *)
(* The tour is started from rest only, so that a step is entered again     *)
(* only after it was left.                                                 *)

Overlapping(m, op, arg) == RunWithin(m, op, arg, MaxOverlap, MaxOverlap)

Restart ==
    /\ status \in {"idle", "completed"}
    /\ \E i \in DOMAIN steps : Overlapping(start(Cur, i), "start", i)
    /\ UNCHANGED fixed

StopOverlapping ==
    /\ Overlapping(stop(Cur), "stop", -1)
    /\ UNCHANGED fixed

NextOverlapping ==
    /\ Overlapping(next(Cur), "next", -1)
    /\ UNCHANGED fixed

PreviousOverlapping ==
    /\ Overlapping(previous(Cur), "previous", -1)
    /\ UNCHANGED fixed

SettleOverlapping ==
    /\ \E k \in 1..Len(pending) :
          Overlapping(resumeSetStep([Cur EXCEPT !.pending = Remove(pending, k),
                                                !.tr = pending[k].trace],
                                    pending[k]),
                      "settle", k)
    /\ UNCHANGED fixed

TimerOverlapping ==
    /\ \E i \in DOMAIN steps :
          /\ timers[i] > 0
          /\ Overlapping(timerFired([Cur EXCEPT !.timers[i] = @ - 1], i), "timer", i)
    /\ UNCHANGED fixed

InitOverlap ==
    /\ Init
    /\ steps # <<>>
    /\ ~opts.scrollToTarget
    /\ dom = DOMAIN steps

NextOverlap ==
    \/ Restart
    \/ StopOverlapping
    \/ NextOverlapping
    \/ PreviousOverlapping
    \/ SettleOverlapping
    \/ TimerOverlapping

SpecOverlap == InitOverlap /\ [][NextOverlap]_vars

----------------------------------------------------------------------------
(* C35: next() called on an active tour while a transition of an earlier   *)
(* next() from the same index is still parked starts a second transition   *)
(* to the same destination, one past the current index, invoking the       *)
(* before-callback again and committing nothing yet.  Each parked          *)
(* transition of a next(), when it commits, commits the index it was       *)
(* called with (one past the index it was called on, also when the other   *)
(* has committed it already), having invoked each before-callback there is *)
(* once, and fires onStepChange once for that index.                       *)
ParkedNextFrom(i) ==
    { k \in 1..from.nPending : /\ from.pending[k].origin = "next"
                               /\ from.pending[k].prev = i }

BeforeCallsOf(r) ==
    [onBeforeHide |-> IF HasHook(r.prev, "onBeforeHide") THEN 1 ELSE 0,
     onBeforeShow |-> IF HasHook(r.index, "onBeforeShow") THEN 1 ELSE 0]

C35_OverlappingNextCommitsSameStep ==
    /\ ( /\ lastOp.op = "next"
         /\ from.status = "active"
         /\ ParkedNextFrom(from.idx) # {} )
       => /\ Len(pending) = from.nPending + 1
          /\ \A k \in ParkedNextFrom(from.idx) :
                /\ pending[Len(pending)].index = from.pending[k].index
                /\ pending[Len(pending)].direction = from.pending[k].direction
          /\ pending[Len(pending)].index = from.idx + 1
          /\ currentStepIndex = from.idx
          /\ status = "active"
          /\ Len(effects) = 1
          /\ effects[1].cb \in {"onBeforeHide", "onBeforeShow"}
    /\ ( /\ lastOp.op = "settle"
         /\ from.resumed.origin = "next"
         /\ Count(effects, "commit") = 1 )
       => /\ currentStepIndex = from.resumed.index
          /\ from.resumed.index = from.resumed.prev + 1
          /\ Entries(effects, "onStepChange")
                = { Fx("onStepChange", from.resumed.index, "next") }
          /\ Count(effects, "onStepChange") = 1
          /\ Count(from.resumed.trace, "onBeforeHide")
                = BeforeCallsOf(from.resumed).onBeforeHide
          /\ Count(from.resumed.trace, "onBeforeShow")
                = BeforeCallsOf(from.resumed).onBeforeShow

\* the second of two overlapping next() calls has just committed the step
\* the first had committed already
C35_Witness ==
    /\ lastOp.op = "settle"
    /\ from.resumed.origin = "next"
    /\ from.nPending = 1
    /\ from.status = "active"
    /\ from.idx = from.resumed.index
    /\ from.resumed.prev = from.idx - 1
    /\ currentStepIndex = from.idx
    /\ Count(effects, "onStepChange") = 1
    /\ pending = <<>>

----------------------------------------------------------------------------
(* C37: in a tour whose steps have no before-callbacks, a timer of step i  *)
(* firing while a later timer of step i is outstanding (the step was left  *)
(* and entered again since the first was set) is consumed and does nothing *)
(* else.                                                                   *)
C37_StaleTimerIsNoOp ==
    \A i \in DOMAIN steps :
       ( /\ TimerFiredFor(i)
         /\ \A j \in DOMAIN steps : steps[j].hooks = {}
         /\ from.timers[i] > 1 )
          => LeftAs([Pre EXCEPT !.timers[i] = @ - 1])

----------------------------------------------------------------------------
(* A tour of auto-advancing steps left to itself: start() is called once,  *)
(* and after it only timers and animation frames run (and the page may     *)
(* reflow).  A timer that was set does fire, and a frame that was          *)
(* requested does run.                                                     *)

InitAuto ==
    /\ Init
    /\ steps # <<>>
    /\ \A i \in DOMAIN steps : steps[i].autoAdvance > 0

StartOnce ==
    /\ status = "idle"
    /\ Run(start(Cur, 0), "start", 0)
    /\ UNCHANGED fixed

NextAuto ==
    \/ StartOnce
    \/ AnimationFrame
    \/ Timer
    \/ LayoutChange

SpecAuto ==
    InitAuto /\ [][NextAuto]_vars /\ WF_vars(Timer) /\ WF_vars(AnimationFrame)

(* C38: in a tour whose steps all auto-advance, started once and left to   *)
(* itself, every commit moves to the step after the current one (from -1   *)
(* to 0, then 1, ...), onComplete fires at most once per run and only in   *)
(* the run that takes the tour from its last step to completed, after      *)
(* which no timer is outstanding; and an active tour eventually becomes    *)
(* completed.                                                              *)
VisitsInOrder ==
    Count(effects, "commit") = 1 => currentStepIndex = from.idx + 1

CompletesOnce ==
    /\ Count(effects, "onComplete") <= 1
    /\ Count(effects, "onComplete") = 1
          => /\ lastOp.op = "timer"
             /\ from.status = "active"
             /\ from.idx = totalSteps - 1
             /\ status = "completed"
    /\ status = "completed"
          => /\ pending = <<>>
             /\ \A i \in DOMAIN steps : timers[i] = 0

C38_AutoAdvanceRunsToCompletion ==
    /\ [](VisitsInOrder /\ CompletesOnce)
    /\ (status = "active") ~> (status = "completed")

\* the timer of the last of MaxSteps steps has just completed the tour
C38_Witness ==
    /\ lastOp.op = "timer"
    /\ totalSteps = MaxSteps
    /\ from.status = "active"
    /\ from.idx = totalSteps - 1
    /\ status = "completed"
    /\ Count(effects, "onComplete") = 1

----------------------------------------------------------------------------
(* A click on a control of the tour's own user interface: a button outside *)
(* every step target whose click handler calls one of the controls.  The   *)
(* button's handler runs first, then the event reaches the window's click  *)
(* listener with the button as its target.                                 *)

Controls == {"next", "previous", "start"}

controlHandler(m, control) ==
    CASE control = "next" -> next(m)
      [] control = "previous" -> previous(m)
      [] control = "start" -> start(m, 0)

clickControl(m, control) == handleClickOutside(controlHandler(m, control), Elsewhere)

ControlClick ==
    /\ \E control \in Controls : Run(clickControl(Cur, control), "controlClick", control)
    /\ UNCHANGED fixed

InitControls ==
    /\ InitInput
    /\ opts.keyboardNavigation
    /\ opts.closeOnEscape

NextControls ==
    \/ ControlClick
    \/ Settle
    \/ AnimationFrame
    \/ Timer

SpecControls == InitControls /\ [][NextControls]_vars

(* C40: with closeOnClickOutside enabled, a click on a control leaves the  *)
(* tour as the control's own call leaves it: on the step that call moved   *)
(* to, and active whenever that call leaves it active.                     *)
C40_ControlClickOnlyNavigates ==
    (lastOp.op = "controlClick" /\ opts.closeOnClickOutside)
       => /\ currentStepIndex = controlHandler(Pre, lastOp.arg).idx
          /\ controlHandler(Pre, lastOp.arg).status = "active" => status = "active"

----------------------------------------------------------------------------
(* The adapter components, mounted on the tour's state and controls.       *)
(* After every run that wrote a ref, Vue flushes the watchers before       *)
(* anything else runs: useTour's watcher copies the refs into state, then  *)
(* the PrimeVue adapter's two watchers see the values of state that        *)
(* changed.  The renders are functions of the state after the flush.       *)

\* The DOMRect the overlay is given for a measured target.
DOMRectOf(rect) == Rect(9 + rect.el, 9 + rect.at, 2, 2)

\* The options the PrimeVue adapter shows its overlay with.
AdapterOverlayOptions == [padding |-> 8, radius |-> 4, opacity |-> 50]

\* watch(() => props.state.targetRect, ...)
watchTargetRect(o, newRect, st, showOverlay, win) ==
    IF showOverlay /\ newRect # NoRect /\ st = "active"
    THEN show(o, DOMRectOf(newRect), AdapterOverlayOptions, win)
    ELSE hide(o)

\* watch(() => props.state.status, ...)
watchStatus(o, st) == IF st # "active" THEN hide(o) ELSE o

\* state.targetRect is another value than before the run: null against a
\* rectangle, or a rectangle measured in the run (every measurement is a new
\* DOMRect object).
TargetRectChanged ==
    \/ targetRect # from.rect
    \/ /\ targetRect # NoRect
       /\ (lastOp.op = "frame" \/ Count(effects, "updateTarget") > 0)

StatusChanged == status # from.status

flushWatchers(o) ==
    LET o1 == IF TargetRectChanged
              THEN watchTargetRect(o, targetRect, status, props.showOverlay, window)
              ELSE o
    IN  IF StatusChanged THEN watchStatus(o1, status) ELSE o1

Flushed == lastOp.op \in {"init", "flush"}

Flush ==
    /\ ~Flushed
    /\ LET o == flushWatchers(CurOverlay)
       IN  /\ path' = o.path
           /\ isVisible' = o.isVisible
           /\ currentOptions' = o.currentOptions
           /\ currentTargetRect' = o.currentTargetRect
    /\ lastOp' = [op |-> "flush", arg |-> -1]
    /\ UNCHANGED <<steps, opts, progVars, dom, layout, effects, from, returned,
                   props, window>>

\* The PrimeVue adapter's render function puts the SVG overlay in the page.
primeVueOverlayRendered ==
    /\ status = "active"
    /\ currentStep # NoStep
    /\ props.showOverlay
    /\ isVisible

\* TourState, as the adapters' state prop holds it after a flush
TourState ==
    [status |-> status, currentStepIndex |-> currentStepIndex,
     targetElement |-> targetElement, targetRect |-> targetRect]

NoRender == [f \in {} |-> 0]

\* slot props whose close stops the tour without the skip callback
headlessSlotProps_closeStops ==
    [state |-> TourState, controls |-> "controls", options |-> opts, close |-> "stop"]

\* The headless adapter's slot props: close is controls.skip.
headlessSlotProps ==
    [state |-> TourState, controls |-> "controls", options |-> opts, close |-> "skip"]

\* The headless adapter's render function: null, or the default slot's output.
headlessRender ==
    IF status # "active" \/ ~props.defaultSlot THEN NoRender ELSE headlessSlotProps

callControl(m, control) ==
    CASE control = "skip" -> skip(m)
      [] control = "stop" -> stop(m)

\* The slot's content calls the close it was given.
Close ==
    /\ headlessRender # NoRender
    /\ Run(callControl(Cur, headlessRender.close), "close", -1)
    /\ UNCHANGED fixed

AdapterProps == [showOverlay : BOOLEAN, defaultSlot : BOOLEAN]

InitAdapters ==
    /\ steps \in StepLists
    /\ opts = DefaultOptions
    /\ status = "idle"
    /\ currentStepIndex = -1
    /\ targetElement = NoElement
    /\ targetRect = NoRect
    /\ pending = <<>>
    /\ rafQueue = <<>>
    /\ timers = [i \in DOMAIN steps |-> 0]
    /\ dom \in SUBSET (DOMAIN steps)
    /\ layout = 0
    /\ lastOp = [op |-> "init", arg |-> -1]
    /\ effects = <<>>
    /\ from = [status |-> "idle", idx |-> -1, el |-> NoElement, rect |-> NoRect,
               pending |-> <<>>, raf |-> <<>>, timers |-> [i \in DOMAIN steps |-> 0],
               nPending |-> 0, sameWork |-> TRUE, resumed |-> NoRecord]
    /\ returned = [isActive |-> isActive]
    /\ props \in AdapterProps
    /\ path = <<>>
    /\ isVisible = FALSE
    /\ currentOptions = DefaultOverlayOptions
    /\ currentTargetRect = NoTargetRect
    /\ window = [innerWidth |-> 20, innerHeight |-> 16]

NextAdapters ==
    \/ Flushed /\ Start
    \/ Flushed /\ Stop
    \/ Flushed /\ Next_
    \/ Flushed /\ Pause
    \/ Flushed /\ Resume
    \/ Flushed /\ Settle
    \/ Flushed /\ AnimationFrame
    \/ Flushed /\ Close
    \/ Flush

SpecAdapters == InitAdapters /\ [][NextAdapters]_vars

(* C31: in the PrimeVue adapter, once the watchers have run, the SVG        *)
(* overlay is in the page exactly when showOverlay is true, targetRect is  *)
(* present and status is active.                                           *)
C31_OverlayShownIffActiveWithRect ==
    Flushed => ( primeVueOverlayRendered
                    <=> (props.showOverlay /\ targetRect # NoRect /\ status = "active") )

(* C32: the headless adapter renders (its default slot) exactly when       *)
(* status is active and a default slot was passed; what it passes the slot *)
(* is state, controls, options and close, with the tour's current state;   *)
(* and a call of close leaves the tour exactly as skip() leaves it.        *)
C32_HeadlessRendersSlotWhenActive ==
    /\ headlessRender # NoRender <=> (status = "active" /\ props.defaultSlot)
    /\ headlessRender # NoRender
          => /\ DOMAIN headlessRender = {"state", "controls", "options", "close"}
             /\ headlessRender.state.status = status
             /\ headlessRender.state.currentStepIndex = currentStepIndex
             /\ headlessRender.options = opts
    /\ lastOp.op = "close" => LeftAs(skip(Pre))

\* the slot's close has just ended an active tour
C32_Witness ==
    /\ lastOp.op = "close"
    /\ props.defaultSlot
    /\ from.status = "active"
    /\ ValidIndex(from.idx)
    /\ status = "idle"
    /\ Count(effects, "onSkip") = 1
    /\ headlessRender = NoRender

====
